---- MODULE Spec2Model ----
(***************************************************************************)
(* SAM2 playground: the inference pipeline (services/sam2Service.ts), its   *)
(* caller (App.tsx) and the mask overlay (components/ImageCanvas.tsx).      *)
(*                                                                         *)
(* Spec       the pipeline singleton driven by App: loadModels,             *)
(*            setAndEmbedImage, segment, with every await a separate step.  *)
(* SpecSelect the best-candidate selection of segment on a score list.      *)
(* SpecRender the boundary test and overlay of the mask render effect.      *)
(***************************************************************************)
EXTENDS Integers, Sequences, FiniteSets, TLC

(* ------------------------------ bounds -------------------------------- *)
MaxMounts == 2
MaxReloads == 1
MaxUploads == 2
MaxClicks == 1
MaxK == 4
CoarseCells == 2
MaxW == 3
MaxH == 3
MaxDecodes == 2
MaxImages == 1
MaxPoints == 3
MaxDest == 4
MaxPixels == 9

(* ------------------------------ values -------------------------------- *)
Null == [tag |-> "null"]

MODEL_URLS == [encoder |-> "sam2_hiera_tiny.encoder.ort", decoder |-> "sam2_hiera_tiny.decoder.onnx"]

Roles == {"encoder", "decoder"}

\* the bytes the network serves at a URL
BytesAt(url) == [tag |-> "bytes", of |-> url]

\* a session constructed by ort.InferenceSession.create(buffer, options)
Session(buffer) == [tag |-> "session", model |-> buffer.of]

\* the n-th uploaded file: consecutive uploads differ in width and height
ImageSize(n) == IF n % 2 = 1 THEN <<4, 2>> ELSE <<2, 3>>

Image(n) == [tag |-> "image", id |-> n, width |-> ImageSize(n)[1], height |-> ImageSize(n)[2]]

PointSet == {[x |-> 1, y |-> 1, label |-> 1], [x |-> 0, y |-> 1, label |-> 0]}

\* a tensor the encoder produced from image img
Tensor(name, img) == [tag |-> "tensor", name |-> name, img |-> img.id, zero |-> FALSE, dims |-> <<>>]

HighResShape0 == <<1, 32, 256, 256>>
HighResShape1 == <<1, 64, 128, 128>>

ZeroTensor_Missing(name, shape, img) == Null

\* new ort.Tensor('float32', new Float32Array(n), shape), made while embedding img
ZeroTensor(name, shape, img) == [tag |-> "tensor", name |-> name, img |-> img.id, zero |-> TRUE, dims |-> shape]

NoCall == [n |-> 0, op |-> "none", accepted |-> FALSE, error |-> "", enc |-> FALSE, dec |-> FALSE, uiImage |-> 0]

\* how the last setAndEmbedImage call settled: the outputs its encoder run returned
\* (ran) and the message of the Error it threw ("" when it resolved)
NoEmbed == [n |-> 0, img |-> 0, ran |-> FALSE, outputs |-> {}, error |-> ""]

InitialModelStatus == [encoderLoaded |-> FALSE, decoderLoaded |-> FALSE, loading |-> FALSE, error |-> Null, progress |-> 0]

VARIABLES
  \* SAM2Service fields
  encoderSession, decoderSession, imageEmbeddings, highResFeats0, highResFeats1, originalImageSize,
  \* IndexedDB store 'models': key -> bytes
  byteCache,
  \* the loadModels call in progress
  loadPc, loadRole, loadBuffer, loadLog, loadOutcome,
  \* App state
  image, points, segmentation, isProcessing, modelStatus,
  \* pending timers and awaited inference calls
  timers, embedCalls, segCalls,
  \* history
  lastCall, encoderRuns, decoderRuns, embedDone, everEmbedded, embedResult, written, fetchedOk,
  mounts, reloads, uploads, clicks,
  \* best-candidate selection
  scores, masks, bestIdx, mask256, selPc,
  \* mask render effect
  mask, edges, overlay, renderPc,
  \* upscaleMask: the red channel of the destination canvas
  finalData

serviceVars == <<encoderSession, decoderSession, imageEmbeddings, highResFeats0, highResFeats1, originalImageSize>>
cacheVars == <<imageEmbeddings, highResFeats0, highResFeats1, originalImageSize>>
loadVars == <<loadPc, loadRole, loadBuffer, loadLog, loadOutcome>>
appVars == <<image, points, segmentation, isProcessing>>
flightVars == <<timers, embedCalls, segCalls>>
histVars == <<lastCall, encoderRuns, decoderRuns, embedDone, everEmbedded, embedResult>>
countVars == <<mounts, reloads, uploads, clicks>>
selectVars == <<scores, masks, bestIdx, mask256, selPc>>
renderVars == <<mask, edges, overlay, renderPc, finalData>>
pipelineVars == <<serviceVars, byteCache, loadVars, appVars, modelStatus, flightVars, histVars, written, fetchedOk, countVars>>
vars == <<pipelineVars, selectVars, renderVars>>

(* ------------------------- byte cache (IndexedDB) ---------------------- *)
\* getCachedModel: resolves getReq.result || null, and null when the open or the get errors
GetCachedModel(key, failed) == IF failed THEN Null ELSE byteCache[key]

CacheModel_OtherKey(key, data) == [byteCache EXCEPT ![CHOOSE k \in DOMAIN byteCache : k # key] = data]

\* cacheModel, when its transaction completes: store.put(data, key)
CacheModel(key, data) == [byteCache EXCEPT ![key] = data]

(* ------------------------------ loadModels ----------------------------- *)
Ev(kind, role, val) == [ev |-> kind, role |-> role, val |-> val]

RangeStart(role) == IF role = "encoder" THEN 0 ELSE 60
RangeEnd(role) == IF role = "encoder" THEN 60 ELSE 100

ProgressAt_FromZero(role, tenths) == ((RangeEnd(role) - RangeStart(role)) * tenths) \div 10

ProgressAt_Jump(role, tenths) == RangeEnd(role)

\* Math.floor(start + (end - start) * tenths/10)
ProgressAt(role, tenths) == (RangeStart(role) * 10 + (RangeEnd(role) - RangeStart(role)) * tenths) \div 10

Progress(role, tenths) == Ev("progress", role, ProgressAt(role, tenths))

AlreadyLoaded_Never == FALSE

AlreadyLoaded_EncoderOnly == encoderSession # Null

\* if (this.encoderSession && this.decoderSession)
AlreadyLoaded == encoderSession # Null /\ decoderSession # Null

\* if (cached)
UseCached(cached) == cached # Null

CacheWriteOutcome_Fatal(ok) == IF ok THEN "create" ELSE "throw"

\* try { await this.cacheModel(url, buffer) } catch (err) { console.warn(...) }
CacheWriteOutcome(ok) == "create"

AfterFailure_Continue(role) == IF role = "encoder" THEN "lookup" ELSE "idle"

\* a throw inside fetchAndLoad leaves the try block: nothing after it runs
AfterFailure(role) == "idle"

\* the Error messages that reach the catch of loadModels
HttpError(url, status) == [kind |-> "http", url |-> url, status |-> status]
NetworkError == [kind |-> "network", url |-> "", status |-> 0]
SessionError == [kind |-> "session", url |-> "", status |-> 0]

HttpStatuses == {404}

StatusFailed_Loaded(st, err) == [st EXCEPT !.loading = FALSE, !.encoderLoaded = TRUE, !.decoderLoaded = TRUE, !.error = [kind |-> "Inference Error", cause |-> err]]

\* init: what the awaited loadModels promise does to modelStatus
StatusLoaded(st, progress) == [st EXCEPT !.loading = FALSE, !.encoderLoaded = TRUE, !.decoderLoaded = TRUE, !.progress = progress]
StatusFailed(st, err) == [st EXCEPT !.loading = FALSE, !.error = [kind |-> "Inference Error", cause |-> err]]

\* the first await of fetchAndLoad(url, start, end): getCachedModel(url)
StartFetchAndLoad(role, log) ==
  /\ loadPc' = "lookup"
  /\ loadRole' = role
  /\ loadBuffer' = Null
  /\ loadLog' = Append(log, Ev("lookup", role, MODEL_URLS[role]))

\* catch (error) { throw new Error(`Inference Error: ...`) }, then the catch of init
LoadFail(err) ==
  /\ loadLog' = Append(loadLog, Ev("error", loadRole, err))
  /\ loadOutcome' = "rejected"
  /\ modelStatus' = StatusFailed(modelStatus, err)
  /\ IF AfterFailure(loadRole) = "idle"
       THEN /\ loadPc' = "idle"
            /\ UNCHANGED <<loadRole, loadBuffer>>
       ELSE /\ loadPc' = "lookup"
            /\ loadRole' = "decoder"
            /\ loadBuffer' = Null
  /\ UNCHANGED <<serviceVars, byteCache, written, fetchedOk>>

\* the full-screen "Initializing Engine" overlay covers the page while this holds
OverlayShown == modelStatus.loading /\ modelStatus.progress < 100

NothingInFlight == loadPc = "idle" /\ timers = {} /\ embedCalls = {} /\ segCalls = {}

\* App mounts: the effect runs init, which calls sam2Service.loadModels
Mount ==
  /\ mounts < MaxMounts
  /\ NothingInFlight
  /\ mounts' = mounts + 1
  /\ image' = Null /\ points' = <<>> /\ segmentation' = Null /\ isProcessing' = FALSE
  /\ IF AlreadyLoaded
       THEN /\ loadLog' = <<Ev("progress", "all", 100)>>
            /\ loadOutcome' = "resolved"
            /\ modelStatus' = StatusLoaded(InitialModelStatus, 100)
            /\ UNCHANGED <<loadPc, loadRole, loadBuffer>>
       ELSE /\ StartFetchAndLoad("encoder", <<>>)
            /\ loadOutcome' = "pending"
            /\ modelStatus' = [InitialModelStatus EXCEPT !.loading = TRUE]
  /\ UNCHANGED <<serviceVars, byteCache, flightVars, histVars, written, fetchedOk, reloads, uploads, clicks>>
  /\ UNCHANGED <<selectVars, renderVars>>

\* whether the open or the get request of getCachedModel errors; an error on an
\* absent key resolves null like the get itself, so only an error on a stored key differs
LookupFailures(key) == IF byteCache[key] # Null THEN BOOLEAN ELSE {FALSE}

\* getCachedModel resolves
LookupDone ==
  /\ loadPc = "lookup"
  /\ \E failed \in LookupFailures(MODEL_URLS[loadRole]) :
       LET url == MODEL_URLS[loadRole]
           cached == GetCachedModel(url, failed)
           log1 == Append(loadLog, Ev(IF cached # Null THEN "hit" ELSE "miss", loadRole, failed))
       IN IF UseCached(cached)
            THEN /\ loadBuffer' = cached
                 /\ loadLog' = log1 \o <<Progress(loadRole, 5), Progress(loadRole, 8), Ev("create", loadRole, cached)>>
                 /\ modelStatus' = [modelStatus EXCEPT !.progress = ProgressAt(loadRole, 8)]
                 /\ loadPc' = "create"
            ELSE /\ loadBuffer' = Null
                 /\ loadLog' = Append(log1, Ev("fetch", loadRole, url))
                 /\ modelStatus' = modelStatus
                 /\ loadPc' = "fetch"
  /\ UNCHANGED <<loadRole, loadOutcome, serviceVars, byteCache, written, fetchedOk>>
  /\ UNCHANGED <<appVars, flightVars, histVars, countVars, selectVars, renderVars>>

\* fetch(url) settles
FetchDone ==
  /\ loadPc = "fetch"
  /\ \/ /\ loadPc' = "body"
        /\ UNCHANGED <<loadRole, loadBuffer, loadLog, loadOutcome, modelStatus, serviceVars, byteCache, written, fetchedOk>>
     \/ \E status \in HttpStatuses : LoadFail(HttpError(MODEL_URLS[loadRole], status))
     \/ LoadFail(NetworkError)
  /\ UNCHANGED <<appVars, flightVars, histVars, countVars, selectVars, renderVars>>

\* response.arrayBuffer() settles
BodyDone ==
  /\ loadPc = "body"
  /\ \/ /\ loadBuffer' = BytesAt(MODEL_URLS[loadRole])
        /\ loadLog' = loadLog \o <<Progress(loadRole, 6), Ev("put", loadRole, MODEL_URLS[loadRole])>>
        /\ modelStatus' = [modelStatus EXCEPT !.progress = ProgressAt(loadRole, 6)]
        /\ loadPc' = "put"
        /\ UNCHANGED <<loadRole, loadOutcome, serviceVars, byteCache, written, fetchedOk>>
     \/ LoadFail(NetworkError)
  /\ UNCHANGED <<appVars, flightVars, histVars, countVars, selectVars, renderVars>>

\* cacheModel(url, buffer) settles
PutDone ==
  /\ loadPc = "put"
  /\ \E ok \in BOOLEAN :
       /\ byteCache' = IF ok THEN CacheModel(MODEL_URLS[loadRole], loadBuffer) ELSE byteCache
       /\ written' = IF ok THEN written \cup {<<loadRole, reloads>>} ELSE written
       /\ fetchedOk' = fetchedOk \cup {<<loadRole, reloads>>}
       /\ IF CacheWriteOutcome(ok) = "create"
            THEN /\ loadLog' = loadLog \o <<Ev(IF ok THEN "putOk" ELSE "putFailed", loadRole, MODEL_URLS[loadRole]), Progress(loadRole, 8), Ev("create", loadRole, loadBuffer)>>
                 /\ modelStatus' = [modelStatus EXCEPT !.progress = ProgressAt(loadRole, 8)]
                 /\ loadPc' = "create"
                 /\ loadOutcome' = loadOutcome
            ELSE /\ loadLog' = loadLog \o <<Ev("putFailed", loadRole, MODEL_URLS[loadRole]), Ev("error", loadRole, [kind |-> "cache", url |-> "", status |-> 0])>>
                 /\ modelStatus' = StatusFailed(modelStatus, [kind |-> "cache", url |-> "", status |-> 0])
                 /\ loadPc' = "idle"
                 /\ loadOutcome' = "rejected"
  /\ UNCHANGED <<loadRole, loadBuffer, serviceVars>>
  /\ UNCHANGED <<appVars, flightVars, histVars, countVars, selectVars, renderVars>>

\* the readwrite transaction of cacheModel aborts without an error event (the commit
\* fails, the connection is closed): only tx.oncomplete and tx.onerror are set, so
\* the promise of cacheModel neither resolves nor rejects and the await never returns
PutAborts ==
  /\ loadPc = "put"
  /\ loadPc' = "hung"
  /\ loadLog' = Append(loadLog, Ev("putAborted", loadRole, MODEL_URLS[loadRole]))
  /\ fetchedOk' = fetchedOk \cup {<<loadRole, reloads>>}
  /\ UNCHANGED <<loadRole, loadBuffer, loadOutcome, serviceVars, byteCache, written, modelStatus>>
  /\ UNCHANGED <<appVars, flightVars, histVars, countVars, selectVars, renderVars>>

\* ort.InferenceSession.create(buffer, options) settles
CreateDone ==
  /\ loadPc = "create"
  /\ \/ /\ UNCHANGED <<cacheVars, byteCache, written, fetchedOk>>
        /\ IF loadRole = "encoder"
             THEN /\ encoderSession' = Session(loadBuffer)
                  /\ StartFetchAndLoad("decoder", Append(loadLog, Ev("progress", loadRole, RangeEnd(loadRole))))
                  /\ modelStatus' = [modelStatus EXCEPT !.progress = RangeEnd(loadRole)]
                  /\ UNCHANGED <<decoderSession, loadOutcome>>
             ELSE /\ decoderSession' = Session(loadBuffer)
                  /\ loadLog' = Append(loadLog, Ev("progress", loadRole, RangeEnd(loadRole)))
                  /\ loadPc' = "idle"
                  /\ loadOutcome' = "resolved"
                  /\ modelStatus' = StatusLoaded(modelStatus, RangeEnd(loadRole))
                  /\ UNCHANGED <<encoderSession, loadRole, loadBuffer>>
     \/ LoadFail(SessionError)
  /\ UNCHANGED <<appVars, flightVars, histVars, countVars, selectVars, renderVars>>

(* -------------------------- setAndEmbedImage --------------------------- *)
SetImageReady_Always == TRUE

\* if (!this.encoderSession) throw new Error('Encoder session not initialized')
SetImageReady == encoderSession # Null

\* this.originalImageSize = { width: image.width, height: image.height }
OriginalSize(img) == [tag |-> "size", img |-> img.id, width |-> img.width, height |-> img.height]

\* the named outputs one encoder run can return
EncoderOutputs == {
  {"image_embed", "high_res_feats_0", "high_res_feats_1"},
  {"image_embeddings"},
  {"high_res_feats_0", "high_res_feats_1"} }

\* the output names setAndEmbedImage reads from the encoder's results
OutputNames == {"image_embed", "image_embeddings", "high_res_feats_0", "high_res_feats_1"}

Output(results, name, img) == IF name \in results THEN Tensor(name, img) ELSE Null

\* a || b
OrElse(a, b) == IF a # Null THEN a ELSE b

\* results.image_embed || results.image_embeddings
PrimaryEmbedding(results, img) == OrElse(Output(results, "image_embed", img), Output(results, "image_embeddings", img))

Call(op, accepted, error) ==
  [n |-> lastCall.n + 1, op |-> op, accepted |-> accepted, error |-> error,
   enc |-> encoderSession # Null, dec |-> decoderSession # Null,
   uiImage |-> IF image = Null THEN 0 ELSE image.id]

Settled(img, ran, outputs, error) == [n |-> embedResult.n + 1, img |-> img.id, ran |-> ran, outputs |-> outputs, error |-> error]

EmbeddingError_Never(embedding) == ""

\* if (!this.imageEmbeddings) throw new Error('Encoder failed to produce embeddings')
EmbeddingError(embedding) == IF embedding = Null THEN "Encoder failed to produce embeddings" ELSE ""

\* the image a cached tensor or size was made from (0: none)
ImgOf(t) == IF t = Null THEN 0 ELSE t.img

\* img.onload of handleImageUpload
ImgOnload ==
  /\ mounts > 0
  /\ ~OverlayShown
  /\ uploads < MaxUploads
  /\ image' = Image(uploads + 1)
  /\ timers' = timers \cup {Image(uploads + 1)}
  /\ points' = <<>>
  /\ segmentation' = Null
  /\ uploads' = uploads + 1
  /\ UNCHANGED <<isProcessing, embedCalls, segCalls, mounts, reloads, clicks>>
  /\ UNCHANGED <<serviceVars, byteCache, loadVars, modelStatus, histVars, written, fetchedOk, selectVars, renderVars>>

\* setAndEmbedImage(img), up to its await
SetAndEmbedImageStart(img) ==
  IF SetImageReady
    THEN /\ originalImageSize' = OriginalSize(img)
         /\ embedCalls' = embedCalls \cup {img}
         /\ encoderRuns' = encoderRuns + 1
         /\ lastCall' = Call("setAndEmbedImage", TRUE, "")
         /\ embedDone' = embedDone
         /\ embedResult' = embedResult
    ELSE /\ lastCall' = Call("setAndEmbedImage", FALSE, "Encoder session not initialized")
         /\ embedDone' = embedDone \cup {img.id}
         /\ embedResult' = Settled(img, FALSE, {}, "Encoder session not initialized")
         /\ UNCHANGED <<originalImageSize, embedCalls, encoderRuns>>

\* the setTimeout callback of handleImageUpload, up to the await inside setAndEmbedImage
TimerFires ==
  /\ \E img \in timers :
       /\ timers' = timers \ {img}
       /\ SetAndEmbedImageStart(img)
  /\ isProcessing' = SetImageReady
  /\ UNCHANGED <<encoderSession, decoderSession, imageEmbeddings, highResFeats0, highResFeats1>>
  /\ UNCHANGED <<image, points, segmentation, segCalls, decoderRuns, everEmbedded, countVars>>
  /\ UNCHANGED <<byteCache, loadVars, modelStatus, written, fetchedOk, selectVars, renderVars>>

EncoderReturns_KeepsAux(img, results) ==
  /\ imageEmbeddings' = PrimaryEmbedding(results, img)
  /\ highResFeats0' = OrElse(Output(results, "high_res_feats_0", img), highResFeats0)
  /\ highResFeats1' = OrElse(Output(results, "high_res_feats_1", img), highResFeats1)
  /\ everEmbedded' = (everEmbedded \/ PrimaryEmbedding(results, img) # Null)
  /\ embedResult' = Settled(img, TRUE, results, EmbeddingError(PrimaryEmbedding(results, img)))

\* lines 172-178 of setAndEmbedImage, on the outputs the encoder run returned
EncoderReturns(img, results) ==
  /\ imageEmbeddings' = PrimaryEmbedding(results, img)
  /\ highResFeats0' = OrElse(Output(results, "high_res_feats_0", img), ZeroTensor("high_res_feats_0", HighResShape0, img))
  /\ highResFeats1' = OrElse(Output(results, "high_res_feats_1", img), ZeroTensor("high_res_feats_1", HighResShape1, img))
  /\ everEmbedded' = (everEmbedded \/ PrimaryEmbedding(results, img) # Null)
  /\ embedResult' = Settled(img, TRUE, results, EmbeddingError(PrimaryEmbedding(results, img)))

\* the encoder run rejects: setAndEmbedImage throws at its await
EncoderRejects(img) ==
  /\ embedResult' = Settled(img, FALSE, {}, "encoderSession.run rejected")
  /\ UNCHANGED <<imageEmbeddings, highResFeats0, highResFeats1, everEmbedded>>

\* this.encoderSession.run settles with one of the given outputs, or rejects; the rest
\* of setAndEmbedImage and the finally of the caller
EncoderDoneWith(outputs) ==
  /\ \E img \in embedCalls :
       /\ embedCalls' = embedCalls \ {img}
       /\ embedDone' = embedDone \cup {img.id}
       /\ \/ \E results \in outputs : EncoderReturns(img, results)
          \/ EncoderRejects(img)
  /\ isProcessing' = FALSE
  /\ UNCHANGED <<encoderSession, decoderSession, originalImageSize>>
  /\ UNCHANGED <<image, points, segmentation, timers, segCalls, lastCall, encoderRuns, decoderRuns, countVars>>
  /\ UNCHANGED <<byteCache, loadVars, modelStatus, written, fetchedOk, selectVars, renderVars>>

EncoderDone == EncoderDoneWith(EncoderOutputs)

(* ------------------------------- segment ------------------------------- *)
SegmentReady_NoEmbeddingCheck == decoderSession # Null /\ originalImageSize # Null

\* if (!this.decoderSession || !this.imageEmbeddings || !this.originalImageSize) throw ...
SegmentReady == decoderSession # Null /\ imageEmbeddings # Null /\ originalImageSize # Null

\* a JavaScript array: indices 0..length-1
Arr(seq) == [i \in 0..(Len(seq) - 1) |-> seq[i + 1]]
Length(a) == Cardinality(DOMAIN a)

Better_OrEqual(a, i, best) == a[i] >= a[best]

\* if (scores[i] > scores[bestIdx])
Better(a, i, best) == a[i] > a[best]

\* let bestIdx = 0; for (let i = 1; i < scores.length; i++) if (...) bestIdx = i
RECURSIVE BestLoop(_, _, _)
BestLoop(a, i, best) ==
  IF i < Length(a)
    THEN BestLoop(a, i + 1, IF Better(a, i, best) THEN i ELSE best)
    ELSE best

BestIndex(a) == BestLoop(a, 1, 0)

\* the iou score lists one decoder run can return (tenths)
DecoderScores == {Arr(<<2, 9, 9, 1>>)}

\* new ort.Tensor('float32', new Float32Array(n), dims): all zero
Zeros(dims) == [zero |-> TRUE, dims |-> dims]

\* (p.x / this.originalImageSize.width) * 1024, kept as the fraction it is
Normalized(v, extent) == [times |-> v * 1024, over |-> extent]

Coords_OnePerPoint(pts) == [k \in 0..(Len(pts) - 1) |-> Normalized(pts[k + 1].x, originalImageSize.width)]

Coords_ByWidth(pts) ==
  [k \in 0..(2 * Len(pts) - 1) |-> Normalized(IF k % 2 = 0 THEN pts[(k \div 2) + 1].x ELSE pts[(k \div 2) + 1].y, originalImageSize.width)]

\* const coords = new Float32Array(numPoints * 2); coords[i * 2] = x..., coords[i * 2 + 1] = y...
Coords(pts) ==
  [k \in 0..(2 * Len(pts) - 1) |->
     IF k % 2 = 0 THEN Normalized(pts[(k \div 2) + 1].x, originalImageSize.width)
                  ELSE Normalized(pts[(k \div 2) + 1].y, originalImageSize.height)]

\* const labels = new Float32Array(numPoints); labels[i] = p.label
Labels(pts) == [k \in 0..(Len(pts) - 1) |-> pts[k + 1].label]

DecoderInputs_Refines(pts) ==
  [image_embed |-> imageEmbeddings,
   point_coords |-> [data |-> Coords(pts), dims |-> <<1, Len(pts), 2>>],
   point_labels |-> [data |-> Labels(pts), dims |-> <<1, Len(pts)>>],
   mask_input |-> [zero |-> segmentation = Null, dims |-> <<1, 1, 256, 256>>],
   has_mask_input |-> [data |-> <<IF segmentation = Null THEN 0 ELSE 1>>, dims |-> <<1>>],
   high_res_feats_0 |-> highResFeats0,
   high_res_feats_1 |-> highResFeats1]

\* the inputs object of segment (lines 186-205)
DecoderInputs(pts) ==
  [image_embed |-> imageEmbeddings,
   point_coords |-> [data |-> Coords(pts), dims |-> <<1, Len(pts), 2>>],
   point_labels |-> [data |-> Labels(pts), dims |-> <<1, Len(pts)>>],
   mask_input |-> Zeros(<<1, 1, 256, 256>>),
   has_mask_input |-> [data |-> <<0>>, dims |-> <<1>>],
   high_res_feats_0 |-> highResFeats0,
   high_res_feats_1 |-> highResFeats1]

\* segment(pts), up to its await; ui is the image on the canvas (0: none)
SegmentStart(pts, ui) ==
  IF SegmentReady
    THEN /\ segCalls' = segCalls \cup {[n |-> lastCall.n + 1, emb |-> imageEmbeddings, f0 |-> highResFeats0, f1 |-> highResFeats1, size |-> originalImageSize, pts |-> pts, uiImage |-> ui, inputs |-> DecoderInputs(pts)]}
         /\ decoderRuns' = decoderRuns + 1
         /\ lastCall' = Call("segment", TRUE, "")
    ELSE /\ lastCall' = Call("segment", FALSE, "Inference pipeline not ready")
         /\ UNCHANGED <<segCalls, decoderRuns>>

\* handleMouseDown of the canvas App's props match (guard: !image || isLoading), addPoint,
\* and segment up to its await
Click ==
  /\ ~OverlayShown
  /\ image # Null
  /\ ~isProcessing
  /\ clicks < MaxClicks
  /\ \E p \in PointSet :
       /\ points' = Append(points, p)
       /\ SegmentStart(Append(points, p), image.id)
  /\ isProcessing' = SegmentReady
  /\ clicks' = clicks + 1
  /\ UNCHANGED <<image, segmentation, timers, embedCalls, encoderRuns, embedDone, everEmbedded, embedResult>>
  /\ UNCHANGED <<mounts, reloads, uploads>>
  /\ UNCHANGED <<serviceVars, byteCache, loadVars, modelStatus, written, fetchedOk, selectVars, renderVars>>

\* this.decoderSession.run settles; the rest of segment, then setSegmentation and the finally
DecoderDone ==
  /\ \E call \in segCalls :
       /\ segCalls' = segCalls \ {call}
       /\ \/ \E s \in DecoderScores :
               segmentation' = [tag |-> "result", emb |-> ImgOf(call.emb), candidate |-> BestIndex(s), score |-> s[BestIndex(s)],
                                width |-> originalImageSize.width, height |-> originalImageSize.height,
                                maskLength |-> originalImageSize.width * originalImageSize.height,
                                sizeOf |-> originalImageSize.img, uiImage |-> call.uiImage]
          \/ segmentation' = segmentation
  /\ isProcessing' = FALSE
  /\ UNCHANGED <<image, points, timers, embedCalls, histVars, countVars>>
  /\ UNCHANGED <<serviceVars, byteCache, loadVars, modelStatus, written, fetchedOk, selectVars, renderVars>>

\* the Clear Selection button (disabled while there is no point)
ResetAll ==
  /\ ~OverlayShown
  /\ points # <<>>
  /\ points' = <<>>
  /\ segmentation' = Null
  /\ UNCHANGED <<image, isProcessing, flightVars, histVars, countVars>>
  /\ UNCHANGED <<serviceVars, byteCache, loadVars, modelStatus, written, fetchedOk, selectVars, renderVars>>

(* ------------------------------ the page ------------------------------- *)
EmptyCache == [u \in {MODEL_URLS[r] : r \in Roles} |-> Null]

\* module load: new SAM2Service(), App not yet mounted
FreshPage ==
  /\ encoderSession = Null /\ decoderSession = Null
  /\ imageEmbeddings = Null /\ highResFeats0 = Null /\ highResFeats1 = Null
  /\ originalImageSize = Null
  /\ loadPc = "idle" /\ loadRole = "encoder" /\ loadBuffer = Null /\ loadLog = <<>> /\ loadOutcome = "none"
  /\ image = Null /\ points = <<>> /\ segmentation = Null /\ isProcessing = FALSE
  /\ modelStatus = InitialModelStatus
  /\ timers = {} /\ embedCalls = {} /\ segCalls = {}
  /\ lastCall = NoCall /\ encoderRuns = 0 /\ decoderRuns = 0 /\ embedDone = {} /\ everEmbedded = FALSE
  /\ embedResult = NoEmbed
  /\ mounts = 0

SelectIdle == scores = Arr(<<0>>) /\ masks = Arr(<<>>) /\ bestIdx = 0 /\ mask256 = Arr(<<>>) /\ selPc = "off"
RenderIdle == mask = Null /\ edges = {} /\ overlay = Null /\ renderPc = "off" /\ finalData = Null

Init ==
  /\ FreshPage
  /\ byteCache = EmptyCache
  /\ written = {} /\ fetchedOk = {} /\ reloads = 0 /\ uploads = 0 /\ clicks = 0
  /\ SelectIdle
  /\ RenderIdle

\* the page is loaded again: a fresh SAM2Service and App over the same IndexedDB store;
\* a put transaction still pending when the page goes away may or may not commit
Reload ==
  /\ reloads < MaxReloads
  /\ mounts > 0
  /\ reloads' = reloads + 1
  /\ encoderSession' = Null /\ decoderSession' = Null
  /\ imageEmbeddings' = Null /\ highResFeats0' = Null /\ highResFeats1' = Null
  /\ originalImageSize' = Null
  /\ loadPc' = "idle" /\ loadRole' = "encoder" /\ loadBuffer' = Null /\ loadLog' = <<>> /\ loadOutcome' = "none"
  /\ image' = Null /\ points' = <<>> /\ segmentation' = Null /\ isProcessing' = FALSE
  /\ modelStatus' = InitialModelStatus
  /\ timers' = {} /\ embedCalls' = {} /\ segCalls' = {}
  /\ lastCall' = NoCall /\ encoderRuns' = 0 /\ decoderRuns' = 0 /\ embedDone' = {} /\ everEmbedded' = FALSE
  /\ embedResult' = NoEmbed
  /\ mounts' = 0
  /\ \/ UNCHANGED <<byteCache, written>>
     \/ /\ loadPc = "put"
        /\ byteCache' = CacheModel(MODEL_URLS[loadRole], loadBuffer)
        /\ written' = written \cup {<<loadRole, reloads>>}
  /\ UNCHANGED <<fetchedOk, uploads, clicks, selectVars, renderVars>>

\* the effect of the first mount of a page
FirstMount == mounts = 0 /\ Mount

\* one page load, one mount: the pipeline as App drives it
Next ==
  \/ FirstMount
  \/ LookupDone
  \/ FetchDone
  \/ BodyDone
  \/ PutDone
  \/ PutAborts
  \/ CreateDone
  \/ ImgOnload
  \/ TimerFires
  \/ EncoderDone
  \/ Click
  \/ DecoderDone
  \/ ResetAll

Spec == Init /\ [][Next]_vars

\* model loading alone, over mounts of App and reloads of the page
NextLoad ==
  \/ Mount
  \/ LookupDone
  \/ FetchDone
  \/ BodyDone
  \/ PutDone
  \/ PutAborts
  \/ CreateDone
  \/ Reload

SpecLoad == Init /\ [][NextLoad]_vars

\* every collaborator call in flight (IndexedDB, fetch, session creation) eventually
\* returns or fails
LoadFairness ==
  /\ WF_vars(LookupDone)
  /\ WF_vars(FetchDone)
  /\ WF_vars(BodyDone)
  /\ WF_vars(PutDone \/ PutAborts)
  /\ WF_vars(CreateDone)

SpecLoadFair == SpecLoad /\ LoadFairness

(* --------- the pipeline called directly, by any caller of its API ------- *)
\* the log of a first loadModels call that fetched, cached and created one model
LoadedLog(role) ==
  << Ev("lookup", role, MODEL_URLS[role]), Ev("miss", role, FALSE), Ev("fetch", role, MODEL_URLS[role]),
     Progress(role, 6), Ev("put", role, MODEL_URLS[role]), Ev("putOk", role, MODEL_URLS[role]),
     Progress(role, 8), Ev("create", role, BytesAt(MODEL_URLS[role])), Ev("progress", role, RangeEnd(role)) >>

\* the models of a page after its first loadModels call resolved
LoadedModels ==
  /\ encoderSession = Session(BytesAt(MODEL_URLS.encoder)) /\ decoderSession = Session(BytesAt(MODEL_URLS.decoder))
  /\ byteCache = [u \in {MODEL_URLS[r] : r \in Roles} |-> BytesAt(u)]
  /\ loadPc = "idle" /\ loadRole = "decoder" /\ loadBuffer = BytesAt(MODEL_URLS.decoder)
  /\ loadLog = LoadedLog("encoder") \o LoadedLog("decoder") /\ loadOutcome = "resolved"
  /\ modelStatus = StatusLoaded([InitialModelStatus EXCEPT !.loading = TRUE], 100)
  /\ written = Roles \X {0} /\ fetchedOk = Roles \X {0}
  /\ mounts = 1 /\ reloads = 0

\* the page after its first loadModels call resolved, nothing uploaded yet
LoadedPage ==
  /\ LoadedModels
  /\ imageEmbeddings = Null /\ highResFeats0 = Null /\ highResFeats1 = Null
  /\ originalImageSize = Null
  /\ image = Null /\ points = <<>> /\ segmentation = Null /\ isProcessing = FALSE
  /\ timers = {} /\ embedCalls = {} /\ segCalls = {}
  /\ lastCall = NoCall /\ encoderRuns = 0 /\ decoderRuns = 0 /\ embedDone = {} /\ everEmbedded = FALSE
  /\ embedResult = NoEmbed
  /\ uploads = 0 /\ clicks = 0

\* the loaded page after n images were uploaded and embedded one after the other,
\* every encoder run returning all its outputs
EmbeddedPage(n) ==
  /\ LoadedModels
  /\ imageEmbeddings = Tensor("image_embed", Image(n))
  /\ highResFeats0 = Tensor("high_res_feats_0", Image(n)) /\ highResFeats1 = Tensor("high_res_feats_1", Image(n))
  /\ originalImageSize = OriginalSize(Image(n))
  /\ image = Image(n) /\ points = <<>> /\ segmentation = Null /\ isProcessing = FALSE
  /\ timers = {} /\ embedCalls = {} /\ segCalls = {}
  /\ lastCall = [n |-> n, op |-> "setAndEmbedImage", accepted |-> TRUE, error |-> "", enc |-> TRUE, dec |-> TRUE, uiImage |-> n]
  /\ encoderRuns = n /\ decoderRuns = 0 /\ embedDone = 1..n /\ everEmbedded = TRUE
  /\ embedResult = [n |-> n, img |-> n, ran |-> TRUE, outputs |-> {"image_embed", "high_res_feats_0", "high_res_feats_1"}, error |-> ""]
  /\ uploads = n /\ clicks = 0

InitService ==
  /\ LoadedPage
  /\ SelectIdle
  /\ RenderIdle

\* the point lists a caller can pass to segment
Prompts == {<<>>} \cup {<<p>> : p \in PointSet}

\* an HTMLImageElement that has no pixels: its width is 0
EmptyImage(n) == [Image(n) EXCEPT !.width = 0]

\* the images a caller can pass as the n-th call's argument
ServiceImages(n) == {Image(n), EmptyImage(n)}

\* sam2Service.setAndEmbedImage(img), up to its await
SetImage ==
  /\ uploads < MaxImages
  /\ \E img \in ServiceImages(uploads + 1) : SetAndEmbedImageStart(img)
  /\ uploads' = uploads + 1
  /\ UNCHANGED <<encoderSession, decoderSession, imageEmbeddings, highResFeats0, highResFeats1>>
  /\ UNCHANGED <<appVars, timers, segCalls, decoderRuns, everEmbedded, mounts, reloads, clicks>>
  /\ UNCHANGED <<byteCache, loadVars, modelStatus, written, fetchedOk, selectVars, renderVars>>

\* the encoder run of a direct call settles, with any subset of the outputs read
EncoderSettles == EncoderDoneWith(SUBSET OutputNames)

\* sam2Service.segment(pts), up to its await
Segment ==
  /\ clicks < MaxDecodes
  /\ \E pts \in Prompts : SegmentStart(pts, 0)
  /\ clicks' = clicks + 1
  /\ UNCHANGED <<appVars, timers, embedCalls, encoderRuns, embedDone, everEmbedded, embedResult>>
  /\ UNCHANGED <<mounts, reloads, uploads>>
  /\ UNCHANGED <<serviceVars, byteCache, loadVars, modelStatus, written, fetchedOk, selectVars, renderVars>>

(* ------------------ segment: encoding of the prompt -------------------- *)
\* the points of a prompt
PromptPoints == {[x |-> 3, y |-> 1, label |-> 1], [x |-> 0, y |-> 2, label |-> 0], [x |-> 1, y |-> 1, label |-> 0], [x |-> 2, y |-> 0, label |-> 1]}

\* the point lists of at most MaxPoints points
PromptLists == UNION {[1..n -> PromptPoints] : n \in 0..MaxPoints}

InitPrompt ==
  /\ \E n \in 1..2 : EmbeddedPage(n)
  /\ SelectIdle
  /\ RenderIdle

\* segment(pts) on the embedded image, up to its await
EncodePrompt ==
  /\ decoderRuns = 0
  /\ \E pts \in PromptLists :
       /\ points' = pts
       /\ SegmentStart(pts, image.id)
  /\ isProcessing' = SegmentReady
  /\ clicks' = clicks + 1
  /\ UNCHANGED <<image, segmentation, timers, embedCalls, encoderRuns, embedDone, everEmbedded, embedResult>>
  /\ UNCHANGED <<mounts, reloads, uploads>>
  /\ UNCHANGED <<serviceVars, byteCache, loadVars, modelStatus, written, fetchedOk, selectVars, renderVars>>

NextPrompt == EncodePrompt

SpecPrompt == InitPrompt /\ [][NextPrompt]_vars

NextService ==
  \/ SetImage
  \/ EncoderSettles
  \/ Segment
  \/ DecoderDone

SpecService == InitService /\ [][NextService]_vars

(* ---------------- segment: best-candidate selection -------------------- *)
ScoreVals == {1, 2, 9}

ScoreLists == UNION {[0..(k - 1) -> ScoreVals] : k \in 1..MaxK}

\* results.masks.data: k candidates of CoarseCells cells each (256 * 256 in the decoder),
\* candidate after candidate; every cell is labelled with where it came from
MasksOf(k) == [i \in 0..(k * CoarseCells - 1) |-> [candidate |-> i \div CoarseCells, cell |-> i % CoarseCells]]

\* a.slice(from, to)
Slice(a, from, to) == [j \in 0..(to - from - 1) |-> a[from + j]]

\* masks.slice(bestIdx * 256 * 256, (bestIdx + 1) * 256 * 256)
SliceBest(a, best) == Slice(a, best * CoarseCells, (best + 1) * CoarseCells)

InitSelect ==
  /\ FreshPage
  /\ byteCache = EmptyCache
  /\ written = {} /\ fetchedOk = {} /\ reloads = 0 /\ uploads = 0 /\ clicks = 0
  /\ RenderIdle
  /\ scores \in ScoreLists
  /\ masks = MasksOf(Length(scores))
  /\ bestIdx = 0
  /\ mask256 = Arr(<<>>)
  /\ selPc = "decoded"

\* lines 213-218 of segment, on the decoder's outputs
SelectBest ==
  /\ selPc = "decoded"
  /\ bestIdx' = BestIndex(scores)
  /\ mask256' = SliceBest(masks, BestIndex(scores))
  /\ selPc' = "selected"
  /\ UNCHANGED <<scores, masks, pipelineVars, renderVars>>

NextSelect == SelectBest

SpecSelect == InitSelect /\ [][NextSelect]_vars

(* ------------------- ImageCanvas: mask render effect ------------------- *)
borderThickness == 1

Included == 255

Pixels(w, h) == 0..(w * h - 1)

Masks(w, h) == {[width |-> w, height |-> h, data |-> d] : d \in [Pixels(w, h) -> {0, Included}]}

FullMask(w, h) == [width |-> w, height |-> h, data |-> [i \in Pixels(w, h) |-> Included]]

InBounds(m, nx, ny) == nx >= 0 /\ nx < m.width /\ ny >= 0 /\ ny < m.height

NeighbourExcluded_OutsideCounts(m, nx, ny) == ~InBounds(m, nx, ny) \/ m.data[ny * m.width + nx] = 0

\* if (nx >= 0 && nx < width && ny >= 0 && ny < height) { if (mask[nidx] === 0) return true }
NeighbourExcluded(m, nx, ny) == InBounds(m, nx, ny) /\ m.data[ny * m.width + nx] = 0

\* the two nested loops of isEdge over dy, dx in -1..1, k = 3 * (dy + 1) + (dx + 1)
RECURSIVE EdgeScan(_, _, _, _)
EdgeScan(m, x, y, k) ==
  IF k > 8 THEN FALSE
  ELSE LET dy == (k \div 3) - 1
           dx == (k % 3) - 1
       IN IF dx = 0 /\ dy = 0 THEN EdgeScan(m, x, y, k + 1)
          ELSE IF NeighbourExcluded(m, x + dx, y + dy) THEN TRUE
          ELSE EdgeScan(m, x, y, k + 1)

isEdge(m, x, y) == IF m.data[y * m.width + x] = 0 THEN FALSE ELSE EdgeScan(m, x, y, 0)

EdgePixels(m) == {xy \in (0..(m.width - 1)) \X (0..(m.height - 1)) : isEdge(m, xy[1], xy[2])}

Transparent == [r |-> 0, g |-> 0, b |-> 0, a |-> 0]
Fill == [r |-> 99, g |-> 102, b |-> 241, a |-> 180]
Border == [r |-> 255, g |-> 255, b |-> 255, a |-> 255]

\* first pass: fill the mask with the semi-transparent colour
FirstPass(m) == [i \in Pixels(m.width, m.height) |-> IF m.data[i] > 0 THEN Fill ELSE Transparent]

Near_Self(x, y, e) == x = e[1] /\ y = e[2]

\* dx, dy in -borderThickness..borderThickness around the edge pixel e
Near(x, y, e) == x - e[1] >= -borderThickness /\ x - e[1] <= borderThickness /\ y - e[2] >= -borderThickness /\ y - e[2] <= borderThickness

\* second pass: every in-bounds pixel within borderThickness of an edge pixel is drawn as border
SecondPass(m, data) ==
  LET found == EdgePixels(m)
  IN [i \in Pixels(m.width, m.height) |->
        IF \E e \in found : Near(i % m.width, i \div m.width, e) THEN Border ELSE data[i]]

\* the widths and heights of the segmentations rendered
MaskSizes == {wh \in (1..MaxW) \X (1..MaxH) : wh[1] * wh[2] <= MaxPixels}

InitRender ==
  /\ FreshPage
  /\ byteCache = EmptyCache
  /\ written = {} /\ fetchedOk = {} /\ reloads = 0 /\ uploads = 0 /\ clicks = 0
  /\ SelectIdle
  /\ mask \in UNION {Masks(wh[1], wh[2]) : wh \in MaskSizes} \cup {FullMask(4, 4)}
  /\ edges = {}
  /\ overlay = Null
  /\ renderPc = "pending"
  /\ finalData = Null

\* the effect on [segmentation], for a segmentation with a mask
RenderMask ==
  /\ renderPc = "pending"
  /\ edges' = EdgePixels(mask)
  /\ overlay' = SecondPass(mask, FirstPass(mask))
  /\ renderPc' = "drawn"
  /\ UNCHANGED <<mask, finalData, pipelineVars, selectVars>>

NextRender == RenderMask

SpecRender == InitRender /\ [][NextRender]_vars

(* ---------------------- segment: upscaleMask --------------------------- *)
\* confidences of the decoder, in units of 1/510: -1, 0, 253/510, 1/2 and 20/17
Confidences == {-510, 0, 253, 255, 600}

\* the coarse masks handed to upscaleMask (256 * 256 cells in the decoder), one row
CoarseMasks == UNION {[0..(n - 1) -> Confidences] : n \in 1..CoarseCells}

\* the store into the Uint8ClampedArray of an ImageData: halves round to the even value
ToUint8Clamp(halves) ==
  LET h == IF halves < 0 THEN 0 ELSE IF halves > 510 THEN 510 ELSE halves
  IN IF h % 2 = 0 THEN h \div 2
     ELSE IF ((h - 1) \div 2) % 2 = 0 THEN (h - 1) \div 2 ELSE (h + 1) \div 2

Quantize_Sigmoid(confidence) == IF confidence >= 0 THEN ToUint8Clamp(IF confidence < 255 THEN 255 ELSE confidence) ELSE 0

\* const val = confidence > 0 ? Math.min(255, Math.max(0, confidence * 255)) : 0
Quantize(confidence) == IF confidence > 0 THEN ToUint8Clamp(confidence) ELSE 0

\* the red channel of tempCanvas after putImageData
TempData(data) == [i \in DOMAIN data |-> Quantize(data[i])]

\* intensities a smoothed pixel is drawn from: both sides of the threshold and the extremes
Intensities == {0, 127, 128, 255}

\* the two drawImage calls with imageSmoothingEnabled: the interpolation is the
\* browser's; a source that is 0 everywhere stays 0 everywhere, any other source
\* may give every destination pixel any intensity
Resampled(src, dw, dh) ==
  IF \A i \in DOMAIN src : src[i] = 0
    THEN {[i \in Pixels(dw, dh) |-> 0]}
    ELSE [Pixels(dw, dh) -> Intensities]

Threshold_Inclusive(val) == IF val >= 127 THEN 255 ELSE 0

\* result[i] = val > 127 ? 255 : 0
Threshold(val) == IF val > 127 THEN 255 ELSE 0

\* the destination sizes (the original image's width and height)
DestSizes == {wh \in (1..MaxW) \X (1..MaxH) : wh[1] * wh[2] <= MaxDest}

InitUpscale ==
  /\ FreshPage
  /\ byteCache = EmptyCache
  /\ written = {} /\ fetchedOk = {} /\ reloads = 0 /\ uploads = 0 /\ clicks = 0
  /\ scores = Arr(<<0>>) /\ bestIdx = 0 /\ selPc = "selected"
  /\ mask256 \in CoarseMasks
  /\ masks = mask256
  /\ mask = Null /\ edges = {} /\ overlay = Null /\ renderPc = "coarse" /\ finalData = Null

\* upscaleMask(bestMask, sw, sh, dw, dh)
UpscaleMask ==
  /\ renderPc = "coarse"
  /\ \E wh \in DestSizes :
       \E final \in Resampled(TempData(mask256), wh[1], wh[2]) :
         /\ finalData' = final
         /\ mask' = [width |-> wh[1], height |-> wh[2], data |-> [i \in Pixels(wh[1], wh[2]) |-> Threshold(final[i])]]
  /\ renderPc' = "pending"
  /\ UNCHANGED <<edges, overlay, pipelineVars, selectVars>>

NextUpscale ==
  \/ UpscaleMask
  \/ RenderMask

SpecUpscale == InitUpscale /\ [][NextUpscale]_vars

(* ======================================================================= *)
(* Claims                                                                  *)
(* ======================================================================= *)
CallMade == lastCall'.n = lastCall.n + 1

CacheOwners == {ImgOf(imageEmbeddings), ImgOf(highResFeats0), ImgOf(highResFeats1), ImgOf(originalImageSize)} \ {0}

\* C1: at every point at which another operation can observe the cache, the cached
\* primary embedding, the auxiliary feature tensors and the remembered image
\* dimensions all belong to one and the same image.
C1_CacheIsOneImage == Cardinality(CacheOwners) <= 1

\* C2 as stated: a setAndEmbedImage or segment call is accepted only if both the
\* encoder session and the decoder session are ready.
C2_BothSessionsRequired == lastCall.accepted => (lastCall.enc /\ lastCall.dec)

\* C2 as amended: setAndEmbedImage is accepted exactly when the encoder session is
\* ready, whatever the decoder session is; segment is accepted only when the decoder
\* session (and then also the encoder session) is ready; a rejected call runs no
\* inference.
C2_RequiredSessionReady ==
  [][CallMade =>
       /\ lastCall'.op = "setAndEmbedImage" => (lastCall'.accepted <=> encoderSession # Null)
       /\ lastCall'.op = "segment" =>
            /\ lastCall'.accepted => (decoderSession # Null /\ encoderSession # Null)
            /\ decoderSession = Null => ~lastCall'.accepted
       /\ ~lastCall'.accepted => (encoderRuns' = encoderRuns /\ decoderRuns' = decoderRuns)]_vars

\* a setAndEmbedImage call accepted while the decoder session is not ready
C2_Witness == lastCall.op = "setAndEmbedImage" /\ lastCall.accepted /\ lastCall.enc /\ ~lastCall.dec

\* C3: a segment call made when the decoder session is not ready, or when no
\* setAndEmbedImage has ever completed successfully, fails with the not-ready error,
\* does not invoke the decoder session, and leaves the cached embedding, the
\* remembered dimensions and the sessions unchanged.
C3_SegmentNotReady ==
  [][(CallMade /\ lastCall'.op = "segment" /\ (decoderSession = Null \/ ~everEmbedded)) =>
       /\ ~lastCall'.accepted
       /\ lastCall'.error = "Inference pipeline not ready"
       /\ decoderRuns' = decoderRuns
       /\ segCalls' = segCalls
       /\ UNCHANGED serviceVars]_vars

\* a segment call rejected although the decoder session is ready, because no image was ever embedded
C3_Witness ==
  /\ lastCall.op = "segment" /\ ~lastCall.accepted /\ lastCall.error = "Inference pipeline not ready"
  /\ lastCall.dec /\ ~everEmbedded /\ decoderRuns = 0

\* C4: the caller serializes embed and decode: at most one setAndEmbedImage-or-segment
\* call is in flight at any time.
C4_OneInFlight == Cardinality(embedCalls) + Cardinality(segCalls) <= 1

\* C5: no segment call for a point placed on an image reads the embedding cache
\* before the setAndEmbedImage call for that image has completed.
C5_EmbedBeforeDecode == lastCall.op = "segment" => lastCall.uiImage \in embedDone

Max(a) == CHOOSE v \in {a[i] : i \in DOMAIN a} : \A i \in DOMAIN a : a[i] <= v

\* the lowest index whose score equals the maximum score
FirstMax(a) == CHOOSE i \in DOMAIN a : a[i] = Max(a) /\ \A j \in DOMAIN a : j < i => a[j] < Max(a)

\* C6: for every non-empty score list, segment selects the lowest index whose score
\* equals the maximum score; for scores [0.2, 0.9, 0.9, 0.1] (here in tenths) the
\* selected index is 1; the returned mask and score are those of the selected index.
C6_FirstMaxSelected ==
  selPc = "selected" =>
    /\ bestIdx = FirstMax(scores)
    /\ scores[bestIdx] = Max(scores)
    /\ mask256 = [j \in 0..(CoarseCells - 1) |-> [candidate |-> FirstMax(scores), cell |-> j]]
    /\ scores = Arr(<<2, 9, 9, 1>>) => bestIdx = 1

C6_Witness == selPc = "selected" /\ scores = Arr(<<2, 9, 9, 1>>) /\ bestIdx = 1 /\ mask256[0].candidate = 1

Neighbours(x, y) == {<<x + dx, y + dy>> : dx \in -1..1, dy \in -1..1} \ {<<x, y>>}

Coordinates(m) == (0..(m.width - 1)) \X (0..(m.height - 1))

At(m, xy) == m.data[xy[2] * m.width + xy[1]]

Events(kind, role) == {i \in 1..Len(loadLog) : loadLog[i].ev = kind /\ loadLog[i].role = role}

Has(kind, role) == Events(kind, role) # {}

\* every event of the first kind comes after some event of the second kind, for the role
After(kind, earlier, role) == \A i \in Events(kind, role) : \E j \in Events(earlier, role) : j < i

EarlierPages == 0..(reloads - 1)

\* C8 as stated: the byte cache is looked up by the model's URL before any network
\* request; on a hit no fetch is issued; on a miss the bytes are fetched and written
\* under the same URL key, so that a later load by a fresh pipeline instance sharing
\* the cache issues no fetch for that model.
C8_FetchedOnceForAll ==
  \A role \in Roles :
    /\ After("fetch", "miss", role) /\ After("miss", "lookup", role) /\ After("hit", "lookup", role)
    /\ Has("hit", role) => ~Has("fetch", role)
    /\ After("put", "fetch", role)
    /\ \A i \in Events("put", role) : loadLog[i].val = MODEL_URLS[role]
    /\ (\E page \in EarlierPages : <<role, page>> \in fetchedOk) => ~Has("fetch", role)

\* C8 as amended: the lookup by URL comes first; a hit issues no fetch; a miss is
\* followed by the fetch and then by an attempt to write the fetched bytes under the
\* same URL key before the session is created; once such a write has succeeded the
\* cache holds the model's bytes under its URL, and a later load by a fresh pipeline
\* instance issues no fetch for that model unless its own cache lookup fails.
C8_FetchedUntilWritten ==
  \A role \in Roles :
    /\ After("fetch", "miss", role) /\ After("miss", "lookup", role) /\ After("hit", "lookup", role)
    /\ \A i \in Events("lookup", role) : loadLog[i].val = MODEL_URLS[role]
    /\ Has("hit", role) => ~Has("fetch", role)
    /\ After("put", "fetch", role)
    /\ \A i \in Events("put", role) : loadLog[i].val = MODEL_URLS[role]
    /\ (Has("miss", role) /\ Has("create", role)) => After("create", "put", role)
    /\ Has("putOk", role) => byteCache[MODEL_URLS[role]] = BytesAt(MODEL_URLS[role])
    /\ (\E page \in EarlierPages : <<role, page>> \in written) =>
         /\ byteCache[MODEL_URLS[role]] = BytesAt(MODEL_URLS[role])
         /\ \A i \in Events("miss", role) : loadLog[i].val = TRUE
         /\ Has("hit", role) => ~Has("fetch", role)

\* a fresh page whose load found both models in the cache an earlier page wrote, and fetched nothing
C8_Witness ==
  /\ reloads = 1 /\ loadOutcome = "resolved"
  /\ \A role \in Roles : <<role, 0>> \in written /\ Has("hit", role) /\ ~Has("fetch", role)

ErrorKinds == {loadLog[i].val.kind : i \in {j \in 1..Len(loadLog) : loadLog[j].ev = "error"}}

\* the cache writes of a role that failed: cacheModel rejected, or its transaction aborted
FailedWrites(role) == Events("putFailed", role) \cup Events("putAborted", role)

\* C9: a failed cache write after a successful fetch never fails the load: the
\* session is still constructed from the fetched bytes, the load continues with the
\* remaining model, and it reaches ready if nothing else fails.
C9_CacheWriteFailureIgnored ==
  /\ "cache" \notin ErrorKinds
  /\ \A role \in Roles :
       \A i \in FailedWrites(role) :
         /\ Len(loadLog) >= i + 2
         /\ loadLog[i + 1].ev = "progress"
         /\ loadLog[i + 2].ev = "create" /\ loadLog[i + 2].role = role
         /\ loadLog[i + 2].val = BytesAt(MODEL_URLS[role])
  /\ (Has("putFailed", "encoder") /\ Has("progress", "encoder") /\ encoderSession # Null /\ ~Has("error", "encoder")
        /\ \E i \in Events("progress", "encoder") : loadLog[i].val = RangeEnd("encoder"))
       => Has("lookup", "decoder")
  /\ (loadPc = "idle" /\ loadLog # <<>> /\ ErrorKinds = {}) =>
       (loadOutcome = "resolved" /\ encoderSession # Null /\ decoderSession # Null /\ ~modelStatus.loading /\ modelStatus.error = Null)

\* a load that resolved with both sessions although both cache writes failed
C9_Witness ==
  /\ loadOutcome = "resolved" /\ Has("putFailed", "encoder") /\ Has("putFailed", "decoder")
  /\ encoderSession = Session(BytesAt(MODEL_URLS.encoder)) /\ decoderSession = Session(BytesAt(MODEL_URLS.decoder))
  /\ byteCache = EmptyCache

AllErrors == {i \in 1..Len(loadLog) : loadLog[i].ev = "error"}

Steps == {"lookup", "fetch", "put", "create"}

\* C10: when a fetch or a session construction fails during loadModels, all remaining
\* load steps are skipped (after a failed encoder load nothing is attempted for the
\* decoder), exactly one error is surfaced to the caller, and no step is retried.
C10_FailureAborts ==
  /\ \A i \in AllErrors :
       /\ i = Len(loadLog)
       /\ loadPc = "idle" /\ loadOutcome = "rejected"
       /\ loadLog[i].val.kind \in {"http", "network", "session"}
       /\ loadLog[i].role = "encoder" => \A j \in 1..Len(loadLog) : loadLog[j].role # "decoder"
       /\ modelStatus.error = [kind |-> "Inference Error", cause |-> loadLog[i].val]
       /\ ~modelStatus.loading
  /\ Cardinality(AllErrors) <= 1
  /\ loadOutcome = "rejected" <=> Cardinality(AllErrors) = 1
  /\ \A role \in Roles : \A step \in Steps : Cardinality(Events(step, role)) <= 1

\* the encoder's fetch answered with an HTTP error: the load is rejected and the decoder untouched
C10_Witness ==
  /\ loadOutcome = "rejected" /\ Has("error", "encoder") /\ Has("fetch", "encoder")
  /\ ~Has("lookup", "decoder") /\ encoderSession = Null /\ decoderSession = Null
  /\ modelStatus.error # Null

SessionOf(role) == IF role = "encoder" THEN encoderSession ELSE decoderSession

FailedRoles == {loadLog[i].role : i \in AllErrors}

ProgressEvents == {i \in 1..Len(loadLog) : loadLog[i].ev = "progress"}

\* C12: within one loadModels call the reported progress values are strictly
\* increasing, every encoder value lies in [0,60], every decoder value in [60,100],
\* and all encoder reports precede all decoder reports, on the hit and the miss path.
C12_ProgressMonotonic ==
  /\ \A i, j \in ProgressEvents : i < j => loadLog[i].val < loadLog[j].val
  /\ \A i \in Events("progress", "encoder") : loadLog[i].val >= 0 /\ loadLog[i].val <= 60
  /\ \A i \in Events("progress", "decoder") : loadLog[i].val >= 60 /\ loadLog[i].val <= 100
  /\ \A i \in Events("progress", "encoder") : \A j \in Events("progress", "decoder") : i < j

\* a completed load with the encoder from the cache and the decoder from the network
C12_Witness ==
  /\ loadOutcome = "resolved" /\ Has("hit", "encoder") /\ Has("fetch", "decoder")
  /\ [i \in 1..6 |-> loadLog[CHOOSE k \in ProgressEvents : Cardinality({j \in ProgressEvents : j <= k}) = i].val]
       = <<30, 48, 60, 84, 92, 100>>

\* progress reports of a role that lie strictly inside its sub-range
InsideReports(role) == {i \in Events("progress", role) : loadLog[i].val > RangeStart(role) /\ loadLog[i].val < RangeEnd(role)}

\* C13: for a model found in the byte cache, at least one progress value strictly
\* inside the model's sub-range is reported before the sub-range's end value.
C13_CachedReportsInside ==
  \A role \in Roles :
    Has("hit", role) =>
      /\ Has("progress", role) => \E i \in InsideReports(role) : \A j \in Events("progress", role) : i <= j
      /\ \A i \in Events("progress", role) :
           loadLog[i].val = RangeEnd(role) => \E j \in InsideReports(role) : j < i

\* both models came from the cache, and each reported its end value after inside values
C13_Witness ==
  /\ loadOutcome = "resolved"
  /\ \A role \in Roles :
       /\ Has("hit", role) /\ ~Has("fetch", role)
       /\ \E i \in Events("progress", role) : loadLog[i].val = RangeEnd(role)
       /\ Cardinality(InsideReports(role)) = 2

\* C14: when both sessions are already ready, loadModels is a no-op: it reports
\* progress 100 exactly once, does no cache lookup, fetch, cache write or session
\* construction, and leaves the session handles and the embedding cache unchanged.
C14_LoadedIsNoOp ==
  [][(mounts' = mounts + 1 /\ encoderSession # Null /\ decoderSession # Null) =>
       /\ loadLog' = <<Ev("progress", "all", 100)>>
       /\ loadPc' = "idle" /\ loadOutcome' = "resolved"
       /\ UNCHANGED <<serviceVars, byteCache, written, fetchedOk>>]_vars

\* a second loadModels call on a loaded pipeline: one report of 100 and nothing else
C14_Witness ==
  /\ mounts = 2 /\ loadLog = <<Ev("progress", "all", 100)>> /\ loadPc = "idle"
  /\ encoderSession # Null /\ decoderSession # Null /\ modelStatus.progress = 100

\* C15: after a failed loadModels call, a later call re-enters loading, performs the
\* load steps again from the encoder's cache lookup, and ends ready with both sessions
\* set if no step fails.
C15_RetryLoadsAgain ==
  /\ [][(mounts' = mounts + 1 /\ loadOutcome = "rejected") =>
          /\ loadPc' = "lookup" /\ loadRole' = "encoder" /\ loadOutcome' = "pending"
          /\ loadLog' = <<Ev("lookup", "encoder", MODEL_URLS.encoder)>>
          /\ modelStatus'.loading /\ modelStatus'.error = Null]_vars
  /\ []((mounts > 1 /\ Has("lookup", "encoder") /\ loadPc = "idle" /\ AllErrors = {}) =>
          /\ loadOutcome = "resolved" /\ encoderSession # Null /\ decoderSession # Null
          /\ \A role \in Roles : Has("create", role)
          /\ ~modelStatus.loading /\ modelStatus.encoderLoaded /\ modelStatus.decoderLoaded)

\* a retry that loaded both models after the first call on the page had failed
C15_Witness ==
  /\ mounts = 2 /\ loadOutcome = "resolved" /\ Has("lookup", "encoder") /\ Has("create", "decoder")
  /\ encoderSession # Null /\ decoderSession # Null

Aliases == {"image_embed", "image_embeddings"}

EmbedSettled == embedResult'.n # embedResult.n

\* C16: setAndEmbedImage fails with the encoder-output-missing error if and only if
\* the encoder's output contains neither image_embed nor image_embeddings; if either
\* is present the call succeeds and that tensor is cached as the primary embedding.
C16_MissingIffNoAlias ==
  /\ [](embedResult.ran =>
          /\ embedResult.error = "Encoder failed to produce embeddings" <=> embedResult.outputs \cap Aliases = {}
          /\ embedResult.outputs \cap Aliases # {} => embedResult.error = "")
  /\ [](embedResult.error = "Encoder failed to produce embeddings" => embedResult.ran)
  /\ [][(EmbedSettled /\ embedResult'.ran /\ embedResult'.outputs \cap Aliases # {}) =>
          imageEmbeddings' =
            [tag |-> "tensor",
             name |-> IF "image_embed" \in embedResult'.outputs THEN "image_embed" ELSE "image_embeddings",
             img |-> embedResult'.img, zero |-> FALSE, dims |-> <<>>]]_vars

\* the encoder named its embedding image_embeddings only: the call resolved and cached it
C16_Witness ==
  /\ embedResult.ran /\ embedResult.outputs = {"image_embeddings", "high_res_feats_1"} /\ embedResult.error = ""
  /\ imageEmbeddings # Null /\ imageEmbeddings.name = "image_embeddings" /\ imageEmbeddings.img = embedResult.img

\* C17: after every successful setAndEmbedImage each auxiliary feature tensor the
\* encoder did not emit is a zero-filled tensor of its fixed shape, made for this
\* image and not left over from an earlier one; every decoder invocation receives all
\* seven named inputs, none missing.
C17_AuxiliaryZeroFilled ==
  /\ [][(EmbedSettled /\ embedResult'.ran /\ embedResult'.error = "") =>
          /\ highResFeats0' =
               [tag |-> "tensor", name |-> "high_res_feats_0", img |-> embedResult'.img,
                zero |-> "high_res_feats_0" \notin embedResult'.outputs,
                dims |-> IF "high_res_feats_0" \in embedResult'.outputs THEN <<>> ELSE <<1, 32, 256, 256>>]
          /\ highResFeats1' =
               [tag |-> "tensor", name |-> "high_res_feats_1", img |-> embedResult'.img,
                zero |-> "high_res_feats_1" \notin embedResult'.outputs,
                dims |-> IF "high_res_feats_1" \in embedResult'.outputs THEN <<>> ELSE <<1, 64, 128, 128>>]]_vars
  /\ [](\A c \in segCalls :
          /\ DOMAIN c.inputs = {"image_embed", "point_coords", "point_labels", "mask_input", "has_mask_input", "high_res_feats_0", "high_res_feats_1"}
          /\ \A k \in DOMAIN c.inputs : c.inputs[k] # Null
          /\ c.inputs.high_res_feats_0.img = c.inputs.image_embed.img
          /\ c.inputs.high_res_feats_1.img = c.inputs.image_embed.img)

\* the second image's encoder run emitted no auxiliary tensor: both are fresh zero tensors
C17_Witness ==
  /\ embedResult.n = 2 /\ embedResult.img = 2 /\ embedResult.outputs = {"image_embeddings"} /\ embedResult.error = ""
  /\ highResFeats0 = [tag |-> "tensor", name |-> "high_res_feats_0", img |-> 2, zero |-> TRUE, dims |-> <<1, 32, 256, 256>>]
  /\ highResFeats1 = [tag |-> "tensor", name |-> "high_res_feats_1", img |-> 2, zero |-> TRUE, dims |-> <<1, 64, 128, 128>>]

\* the decoder inputs as a function of the prompt and the cache alone
ExpectedInputs(pts, emb, f0, f1, size) ==
  [image_embed |-> emb,
   point_coords |-> [data |-> [k \in 0..(2 * Len(pts) - 1) |->
                                 IF k % 2 = 0 THEN [times |-> pts[(k \div 2) + 1].x * 1024, over |-> size.width]
                                              ELSE [times |-> pts[(k \div 2) + 1].y * 1024, over |-> size.height]],
                     dims |-> <<1, Len(pts), 2>>],
   point_labels |-> [data |-> [k \in 0..(Len(pts) - 1) |-> pts[k + 1].label], dims |-> <<1, Len(pts)>>],
   mask_input |-> [zero |-> TRUE, dims |-> <<1, 1, 256, 256>>],
   has_mask_input |-> [data |-> <<0>>, dims |-> <<1>>],
   high_res_feats_0 |-> f0,
   high_res_feats_1 |-> f1]

\* C18: segment carries no state between calls: every call passes a zero-filled
\* previous-mask input with the has-previous-mask flag 0, its inputs are a function of
\* the prompt and the cache alone (so equal prompts against equal caches build equal
\* inputs whatever ran in between), and neither the call nor its completion modifies
\* the cached embedding, the remembered dimensions or the sessions.
C18_DecodeStateless ==
  /\ [][\A c \in segCalls' \ segCalls :
          c.inputs = ExpectedInputs(c.pts, imageEmbeddings, highResFeats0, highResFeats1, originalImageSize)]_vars
  /\ [][(segCalls' # segCalls \/ decoderRuns' # decoderRuns) => UNCHANGED serviceVars]_vars

\* a segment call made after an earlier one returned a mask, and a second call with the
\* same prompt in flight with the same inputs
C18_Witness ==
  \/ /\ segmentation # Null /\ decoderRuns = 2
     /\ \E c \in segCalls : c.pts # <<>> /\ c.inputs.mask_input.zero /\ c.inputs.has_mask_input.data = <<0>>
  \/ \E c, d \in segCalls : c.n # d.n /\ c.pts = d.pts /\ c.pts # <<>> /\ c.inputs = d.inputs

\* C19: every successful segment returns a result whose width and height are the
\* dimensions of the image whose embedding was used, whose mask has width*height
\* entries, and whose score is the selected candidate's score.
C19_ResultMatchesEmbeddedImage ==
  segmentation # Null =>
    /\ segmentation.width = Image(segmentation.emb).width
    /\ segmentation.height = Image(segmentation.emb).height
    /\ segmentation.maskLength = Image(segmentation.emb).width * Image(segmentation.emb).height
    /\ segmentation.candidate = 1 /\ segmentation.score = 9

\* C20: a segment call with zero points fails with an empty-prompt error before the
\* decoder session is invoked: no decoder run is ever made for an empty prompt.
C20_EmptyPromptRejected == \A c \in segCalls : c.pts # <<>>

\* C21: setAndEmbedImage on an image whose width or height is zero fails with an
\* invalid-image error, without running the encoder and without changing the cached
\* embedding or the remembered dimensions.
C21_ZeroSizeImageRejected ==
  /\ \A img \in embedCalls : img.width > 0 /\ img.height > 0
  /\ originalImageSize # Null => (originalImageSize.width > 0 /\ originalImageSize.height > 0)

\* a coordinate x of an image dimension, in the 1024 space: x * 1024 / extent
Scaled(v, extent) == [times |-> v * 1024, over |-> extent]

\* C22 as stated: for every prompt with N points the coordinate array has length N
\* and the label array has length 2N.
C22_CoordsNLabels2N ==
  \A c \in segCalls :
    /\ Length(c.inputs.point_coords.data) = Len(c.pts)
    /\ Length(c.inputs.point_labels.data) = 2 * Len(c.pts)

\* C22 as amended: for every prompt with N points the coordinate array has length 2N
\* (the tensor is [1, N, 2]) and the label array has length N (the tensor is [1, N]).
C22_Coords2NLabelsN ==
  \A c \in segCalls :
    /\ DOMAIN c.inputs.point_coords.data = 0..(2 * Len(c.pts) - 1)
    /\ DOMAIN c.inputs.point_labels.data = 0..(Len(c.pts) - 1)
    /\ c.inputs.point_coords.dims = <<1, Len(c.pts), 2>>
    /\ c.inputs.point_labels.dims = <<1, Len(c.pts)>>

\* a prompt of three points: six coordinates, three labels
C22_Witness ==
  \E c \in segCalls :
    Len(c.pts) = 3 /\ Length(c.inputs.point_coords.data) = 6 /\ Length(c.inputs.point_labels.data) = 3

\* C23: for every point i of a prompt the encoded x is x*1024/originalWidth and the
\* encoded y is y*1024/originalHeight, each axis scaled by its own dimension; the i-th
\* label is the i-th point's label unchanged; the order of the points is preserved.
C23_PointsScaledPerAxis ==
  \A c \in segCalls :
    \A i \in 1..Len(c.pts) :
      /\ c.inputs.point_coords.data[2 * (i - 1)] = Scaled(c.pts[i].x, c.size.width)
      /\ c.inputs.point_coords.data[2 * (i - 1) + 1] = Scaled(c.pts[i].y, c.size.height)
      /\ c.inputs.point_labels.data[i - 1] = c.pts[i].label

\* two different points, in order, on the 4x2 image: x over the width 4, y over the height 2
C23_Witness ==
  \E c \in segCalls :
    /\ c.uiImage = 1 /\ c.pts = <<[x |-> 3, y |-> 1, label |-> 1], [x |-> 0, y |-> 2, label |-> 0]>>
    /\ c.inputs.point_coords.data = Arr(<<Scaled(3, 4), Scaled(1, 2), Scaled(0, 4), Scaled(2, 2)>>)
    /\ c.inputs.point_labels.data = Arr(<<1, 0>>)

\* C24: every load failure surfaced to the caller identifies the failing model URL,
\* and the HTTP status when the server answered with a non-2xx response, whether the
\* failure is a non-2xx response, a network error thrown by fetch or a
\* session-construction error.
C24_FailureNamesUrl ==
  \A i \in AllErrors :
    /\ loadLog[i].val.url = MODEL_URLS[loadLog[i].role]
    /\ loadLog[i].val.kind = "http" => loadLog[i].val.status \in HttpStatuses

\* C25: provided every collaborator call (IndexedDB, fetch, session creation)
\* eventually returns or fails, every loadModels call eventually resolves with both
\* sessions ready or rejects, and the loading flag of the model status eventually
\* becomes false (on the page that made the call, for as long as that page lives).
C25_LoadSettles ==
  \A page \in 0..(MaxReloads + 1) :
    /\ (reloads = page /\ loadPc # "idle") ~>
         (reloads # page \/ (loadPc = "idle" /\ (loadOutcome = "rejected" \/ (loadOutcome = "resolved" /\ encoderSession # Null /\ decoderSession # Null))))
    /\ (reloads = page /\ modelStatus.loading) ~> (reloads # page \/ ~modelStatus.loading)

\* C26: an all-zero coarse mask, of any size, gives an output mask that is 0
\* everywhere, for any destination size; its overlay has no boundary pixel and is
\* fully transparent.
C26_ZeroMaskStaysEmpty ==
  (\A i \in DOMAIN mask256 : mask256[i] = 0) =>
    /\ mask # Null => \A i \in DOMAIN mask.data : mask.data[i] = 0
    /\ renderPc = "drawn" => (edges = {} /\ \A i \in DOMAIN overlay : overlay[i] = Transparent)

\* an all-zero coarse mask of two cells upscaled to 2x2 and drawn
C26_Witness ==
  /\ Length(mask256) = 2 /\ \A i \in DOMAIN mask256 : mask256[i] = 0
  /\ renderPc = "drawn" /\ mask.width = 2 /\ mask.height = 2
  /\ \A i \in DOMAIN overlay : overlay[i].a = 0

\* the overlay pixel at a coordinate
Drawn(xy) == overlay[xy[2] * mask.width + xy[1]]

\* the coordinate is an edge pixel or one of the 8 neighbours of an edge pixel
BesideEdge(xy) == \E e \in edges : e = xy \/ e \in Neighbours(xy[1], xy[2])

\* C27 as stated: in the rendered overlay every excluded pixel (mask value 0) is
\* fully transparent (alpha 0), for every mask, excluded pixels adjacent to a boundary
\* pixel included.
C27_ExcludedTransparent ==
  renderPc = "drawn" =>
    \A xy \in Coordinates(mask) : At(mask, xy) = 0 => Drawn(xy).a = 0

\* C27 as amended: an excluded pixel is fully transparent exactly when it is not one
\* of the 8 neighbours of a boundary pixel; every pixel inside the image that is a
\* boundary pixel or a neighbour of one, excluded or not, is opaque white.
C27_ExcludedTransparentAwayFromEdge ==
  renderPc = "drawn" =>
    \A xy \in Coordinates(mask) :
      /\ BesideEdge(xy) => Drawn(xy) = Border
      /\ (At(mask, xy) = 0 /\ ~BesideEdge(xy)) => Drawn(xy).a = 0
      /\ (At(mask, xy) = 0 /\ BesideEdge(xy)) => Drawn(xy).a = 255

\* a 3x1 mask with only its first pixel included: the excluded pixel next to it is
\* opaque, the excluded pixel two away is transparent
C27_Witness ==
  /\ renderPc = "drawn" /\ mask.width = 3 /\ mask.height = 1
  /\ mask.data[0] = Included /\ mask.data[1] = 0 /\ mask.data[2] = 0
  /\ overlay[1] = Border /\ overlay[2] = Transparent

\* C28: every entry of the mask returned by the upscaler is 0 or 255, and it is 255
\* exactly when the resampled intensity of the pixel is greater than 127 (127 itself
\* gives 0).
C28_BinaryThreshold ==
  mask # Null =>
    \A i \in DOMAIN mask.data :
      /\ mask.data[i] \in {0, 255}
      /\ mask.data[i] = 255 <=> finalData[i] > 127

\* a 2x1 result with intensity 127 excluded and intensity 128 included
C28_Witness ==
  /\ mask # Null /\ mask.width = 2 /\ mask.height = 1
  /\ finalData[0] = 127 /\ mask.data[0] = 0
  /\ finalData[1] = 128 /\ mask.data[1] = 255

\* C29: over every interleaving of uploads, timers, clicks and completions in App, the
\* displayed segmentation was computed from the embedding of the image currently
\* displayed: the result of a segment call started for an earlier image is never
\* displayed over a later image.
C29_DisplayedMatchesImage ==
  segmentation # Null =>
    /\ image # Null
    /\ segmentation.uiImage = image.id
    /\ segmentation.emb = image.id

\* C30: isProcessing is true whenever a setAndEmbedImage or a segment call is in
\* flight: the completion of one operation never clears the flag while another
\* operation is still in flight.
C30_ProcessingWhileInFlight == (embedCalls # {} \/ segCalls # {}) => isProcessing

\* C31: in every reachable state of the pipeline, after any sequence of loadModels,
\* setAndEmbedImage and segment calls, successful or failed, if the cached primary
\* embedding is present then both auxiliary feature tensors and the remembered
\* original image size are present too; a segment call that passed its readiness
\* check hands the decoder no missing tensor and reads a size that is there.
C31_EmbeddingImpliesAuxiliary ==
  /\ imageEmbeddings # Null =>
       (highResFeats0 # Null /\ highResFeats1 # Null /\ originalImageSize # Null)
  /\ \A c \in segCalls :
       /\ c.inputs.image_embed # Null
       /\ c.inputs.high_res_feats_0 # Null
       /\ c.inputs.high_res_feats_1 # Null
       /\ c.size # Null

\* a decode in flight on the embedding of a run that returned image_embeddings alone:
\* both auxiliary tensors are the zero-filled fallbacks
C31_Witness ==
  /\ segCalls # {}
  /\ embedResult.ran /\ embedResult.outputs = {"image_embeddings"}
  /\ imageEmbeddings # Null /\ originalImageSize # Null
  /\ highResFeats0 # Null /\ highResFeats0.zero
  /\ highResFeats1 # Null /\ highResFeats1.zero

====
